---- MODULE Spec2Model ----
(***************************************************************************)
(* Producer side of the memphis.go client (src/producer.go).               *)
(*                                                                         *)
(* Two specifications share the variables below:                           *)
(*   Spec         the producer lifecycle: Conn.CreateProducer and          *)
(*                Producer.Destroy of several producers on one connection, *)
(*                interleaved with the schema-update relay and its reader; *)
(*   SpecProduce  the Header Set and the production pipeline of one        *)
(*                active producer: Headers.New/Add, Producer.Produce and   *)
(*                the transport's resolution of the publish future.        *)
(* A call that blocks on the network is split at its blocking points, and  *)
(* the calls of different goroutines interleave between them.              *)
(***************************************************************************)
EXTENDS Integers, Sequences, FiniteSets, TLC

\* ------------------------------------------------------------------ bounds
MaxUpdates == 2        \* schema updates the broker publishes in one run
MaxDestroyCalls == 2   \* Destroy calls the caller makes on one producer
MaxProduce == 2        \* Produce calls the caller makes in one run

Producers == {"p1", "p2"}
Stations == {"s1", "s2"}

\* ------------------------------------------------------- program constants
SchemaUpdateTypeInit == 1
SchemaUpdateTypeDrop == 2
DefaultAckWaitSec == 15

\* no entry under that key of stationUpdatesSubs
NoSub == [registered |-> FALSE, ch |-> <<>>, schemaType |-> ""]
SchemaTypes == {"", "protobuf"}

VARIABLES
  \* ---- lifecycle (Spec)
  subs,          \* Conn.stationUpdatesSubs: station -> NoSub or the relay's
                 \* state [ch: queue of events, schemaType: stored schema]
  pc,            \* position of each producer's CreateProducer / Destroy call
  Name,          \* Producer.Name
  station,       \* Producer.stationName
  ret,           \* what CreateProducer returned: [producer, err]
  cerr,          \* the error c.create returned, held during the rollback
  dret,          \* what the last Destroy returned
  life,          \* lifecycle state of the producer
  listened,      \* outcome of listenToSchemaUpdates in CreateProducer
  rejected,      \* the creation response carried a non-empty error string
  createReq,     \* creation requests sent for the producer
  destroyReq,    \* destruction requests sent for the producer
  destroyCalls,  \* Destroy calls made on the producer
  removals,      \* relay removals performed by the producer's Destroy calls
  nInit,         \* Init events the producer's handleCreationResp enqueued
  regSeq,        \* number of relay deliveries when the producer registered
  nDelivered,    \* schema updates the relay has delivered so far
  \* ---- Header Set and production pipeline (SpecProduce)
  heap,          \* the header maps by reference: the caller's Headers.MsgHeaders
                 \* and the map getDefaultProduceOpts makes for a call
  lastAdd,       \* what the last Headers.Add returned: [called, err]
  ppc,           \* position of the Produce call: "idle" or "waiting"
  pret,          \* what the last Produce returned: [returned, err, paf], paf
                 \* being the state of its publish future at the return
  lastMsg,       \* the nats.Msg of the latest publish the transport accepted
  paf,           \* the ack future of that publish
  nPublished,    \* publishes the transport accepted so far
  nProduce       \* Produce calls made so far

lifeVars == <<subs, pc, Name, station, ret, cerr, dret, life, listened,
              rejected, createReq, destroyReq, destroyCalls, removals, nInit,
              regSeq, nDelivered>>

prodVars == <<heap, lastAdd, ppc, pret, lastMsg, paf, nPublished, nProduce>>

vars == <<lifeVars, prodVars>>

\* ------------------------------------------------------------ data model
\* SchemaUpdateInit, reduced to the field the producer side reads.
SchemaUpdateInit(t) == [SchemaType |-> t]

\* SchemaUpdate; src and seq record who enqueued the event and, for a relay
\* delivery, its position in the broker's publication order.
SchemaUpdate(ty, init, src, seq) ==
  [UpdateType |-> ty, Init |-> init, src |-> src, seq |-> seq]

\* createProducerResp as c.create sees it: the request may fail in the
\* transport, the body may fail to decode, and otherwise it carries Err and
\* the snapshot.
Responses ==
  [transportOk : {FALSE}, decodeOk : {TRUE}, Err : {""}, SchemaUpdateInit : {SchemaUpdateInit("")}]
  \cup [transportOk : {TRUE}, decodeOk : {FALSE}, Err : {""}, SchemaUpdateInit : {SchemaUpdateInit("")}]
  \cup [transportOk : {TRUE}, decodeOk : {TRUE}, Err : {"BrokerRejected"}, SchemaUpdateInit : {SchemaUpdateInit("")}]
  \cup [transportOk : {TRUE}, decodeOk : {TRUE}, Err : {""}, SchemaUpdateInit : {SchemaUpdateInit(t) : t \in SchemaTypes}]

\* ------------------------------------------------- Schema Update Relay
\* listenToSchemaUpdates(station): ensures a subscription and its channel
\* exist under the station's key; a second registration is a no-op.
listenToSchemaUpdates(m, s, subscribeOk) ==
  IF m[s].registered THEN [subs |-> m, err |-> ""]
  ELSE IF subscribeOk THEN [subs |-> [m EXCEPT ![s] = [registered |-> TRUE, ch |-> <<>>, schemaType |-> ""]], err |-> ""]
  ELSE [subs |-> m, err |-> "SubscribeErr"]

\* removeSchemaUpdatesListener(station): cancels the subscription and
\* releases the channel; NoActiveListener when the station has none.
removeSchemaUpdatesListener(m, s) ==
  IF ~m[s].registered THEN [subs |-> m, err |-> "NoActiveListener"]
  ELSE [subs |-> [m EXCEPT ![s] = NoSub], err |-> ""]

\* ------------------------------------------------------ Conn.CreateProducer
\* handleCreationResp sending the Init event on every registered station's
\* channel instead of the channel under the producer's station key.
handleCreationResp_AnyStation(m, p, s, resp) ==
  IF ~resp.decodeOk THEN [subs |-> m, err |-> "DecodeErr", fault |-> FALSE]
  ELSE IF resp.Err # "" THEN [subs |-> m, err |-> resp.Err, fault |-> FALSE]
  ELSE IF ~m[s].registered THEN [subs |-> m, err |-> "", fault |-> TRUE]
  ELSE [subs |-> [x \in Stations |->
                    IF m[x].registered
                      THEN [m[x] EXCEPT !.ch = Append(@, SchemaUpdate(SchemaUpdateTypeInit,
                                                       resp.SchemaUpdateInit, p, 0))]
                      ELSE m[x]],
        err |-> "", fault |-> FALSE]

\* handleCreationResp sending an Init event with an empty snapshot instead of
\* the SchemaUpdateInit of the response.
handleCreationResp_EmptySnapshot(m, p, s, resp) ==
  IF ~resp.decodeOk THEN [subs |-> m, err |-> "DecodeErr", fault |-> FALSE]
  ELSE IF resp.Err # "" THEN [subs |-> m, err |-> resp.Err, fault |-> FALSE]
  ELSE IF ~m[s].registered THEN [subs |-> m, err |-> "", fault |-> TRUE]
  ELSE [subs |-> [m EXCEPT ![s].ch =
                    Append(@, SchemaUpdate(SchemaUpdateTypeInit, SchemaUpdateInit(""), p, 0))],
        err |-> "", fault |-> FALSE]

\* Producer.handleCreationResp: decode the response, fail on its error
\* string, otherwise send the Init event on the station's channel.  fault
\* marks the send through a missing map entry.
handleCreationResp(m, p, s, resp) ==
  IF ~resp.decodeOk THEN [subs |-> m, err |-> "DecodeErr", fault |-> FALSE]
  ELSE IF resp.Err # "" THEN [subs |-> m, err |-> resp.Err, fault |-> FALSE]
  ELSE IF ~m[s].registered THEN [subs |-> m, err |-> "", fault |-> TRUE]
  ELSE [subs |-> [m EXCEPT ![s].ch =
                    Append(@, SchemaUpdate(SchemaUpdateTypeInit, resp.SchemaUpdateInit, p, 0))],
        err |-> "", fault |-> FALSE]

\* extendNameWithRandSuffix: name + "_" + the 8 hex digits of randomHex(4).
RandomHex == "a1b2c3d4"
extendNameWithRandSuffix(name, suffix) == name \o "_" \o suffix

\* CreateProducer going on to c.create although listenToSchemaUpdates failed.
CreateProducerBegin_IgnoresListenErr(p, s, optErr, genSuffix, suffixErr, subscribeOk) ==
  /\ pc[p] = "start"
  /\ IF optErr \/ (genSuffix /\ suffixErr)
       THEN /\ pc' = [pc EXCEPT ![p] = "done"]
            /\ ret' = [ret EXCEPT ![p] = [producer |-> FALSE,
                                          err |-> IF optErr THEN "OptErr" ELSE "SuffixErr"]]
            /\ UNCHANGED <<subs, Name, station, listened, regSeq>>
       ELSE LET r == listenToSchemaUpdates(subs, s, subscribeOk) IN
            /\ Name' = [Name EXCEPT ![p] = IF genSuffix
                                             THEN extendNameWithRandSuffix(p, RandomHex)
                                             ELSE p]
            /\ station' = [station EXCEPT ![p] = s]
            /\ subs' = r.subs
            /\ pc' = [pc EXCEPT ![p] = "registered"]
            /\ listened' = [listened EXCEPT ![p] = IF r.err # "" THEN "failed" ELSE "ok"]
            /\ regSeq' = [regSeq EXCEPT ![p] = nDelivered]
            /\ UNCHANGED ret
  /\ UNCHANGED <<prodVars, cerr, dret, life, rejected, createReq, destroyReq, destroyCalls,
                 removals, nInit, nDelivered>>

\* CreateProducer up to and including listenToSchemaUpdates: the options,
\* the optional random suffix, the Producer value and the registration.
CreateProducerBegin(p, s, optErr, genSuffix, suffixErr, subscribeOk) ==
  /\ pc[p] = "start"
  /\ IF optErr \/ (genSuffix /\ suffixErr)
       THEN /\ pc' = [pc EXCEPT ![p] = "done"]
            /\ ret' = [ret EXCEPT ![p] = [producer |-> FALSE,
                                          err |-> IF optErr THEN "OptErr" ELSE "SuffixErr"]]
            /\ UNCHANGED <<subs, Name, station, listened, regSeq>>
       ELSE LET r == listenToSchemaUpdates(subs, s, subscribeOk) IN
            /\ Name' = [Name EXCEPT ![p] = IF genSuffix
                                             THEN extendNameWithRandSuffix(p, RandomHex)
                                             ELSE p]
            /\ station' = [station EXCEPT ![p] = s]
            /\ subs' = r.subs
            /\ IF r.err # ""
                 THEN /\ pc' = [pc EXCEPT ![p] = "done"]
                      /\ ret' = [ret EXCEPT ![p] = [producer |-> FALSE, err |-> r.err]]
                      /\ listened' = [listened EXCEPT ![p] = "failed"]
                      /\ UNCHANGED regSeq
                 ELSE /\ pc' = [pc EXCEPT ![p] = "registered"]
                      /\ listened' = [listened EXCEPT ![p] = "ok"]
                      /\ regSeq' = [regSeq EXCEPT ![p] = nDelivered]
                      /\ UNCHANGED ret
  /\ UNCHANGED <<prodVars, cerr, dret, life, rejected, createReq, destroyReq, destroyCalls,
                 removals, nInit, nDelivered>>

\* c.create: the creation request leaves for the producer-creation subject.
CreateSend(p) ==
  /\ pc[p] = "registered"
  /\ pc' = [pc EXCEPT ![p] = "requested"]
  /\ createReq' = [createReq EXCEPT ![p] = @ + 1]
  /\ UNCHANGED <<prodVars, Name, subs, station, ret, cerr, dret, life, listened, rejected,
                 destroyReq, destroyCalls, removals, nInit, regSeq, nDelivered>>

\* c.create after the round trip: a failed request, or handleCreationResp on
\* the response; on success CreateProducer returns the producer.
CreateResp(p, resp) ==
  /\ pc[p] = "requested"
  /\ LET h == handleCreationResp(subs, p, station[p], resp) IN
     IF ~resp.transportOk
       THEN /\ pc' = [pc EXCEPT ![p] = "rollback"]
            /\ cerr' = [cerr EXCEPT ![p] = "RequestErr"]
            /\ UNCHANGED <<subs, ret, life, rejected, nInit>>
     ELSE IF h.fault
       THEN /\ \E o \in {"panicked", "blocked"} : pc' = [pc EXCEPT ![p] = o]
            /\ UNCHANGED <<subs, ret, cerr, life, rejected, nInit>>
     ELSE IF h.err # ""
       THEN /\ pc' = [pc EXCEPT ![p] = "rollback"]
            /\ cerr' = [cerr EXCEPT ![p] = h.err]
            /\ rejected' = [rejected EXCEPT ![p] = resp.decodeOk /\ resp.Err # ""]
            /\ UNCHANGED <<subs, ret, life, nInit>>
       ELSE /\ subs' = h.subs
            /\ nInit' = [nInit EXCEPT ![p] = @ + 1]
            /\ pc' = [pc EXCEPT ![p] = "done"]
            /\ ret' = [ret EXCEPT ![p] = [producer |-> TRUE, err |-> ""]]
            /\ life' = [life EXCEPT ![p] = "Active"]
            /\ UNCHANGED <<cerr, rejected>>
  /\ UNCHANGED <<prodVars, Name, station, dret, listened, createReq, destroyReq, destroyCalls,
                 removals, regSeq, nDelivered>>

\* The failure branch returning c.create's error without removing the listener.
CreateRollback_KeepsListener(p) ==
  /\ pc[p] = "rollback"
  /\ ret' = [ret EXCEPT ![p] = [producer |-> FALSE, err |-> cerr[p]]]
  /\ pc' = [pc EXCEPT ![p] = "done"]
  /\ UNCHANGED <<prodVars, Name, subs, station, cerr, dret, life, listened, rejected, createReq,
                 destroyReq, destroyCalls, removals, nInit, regSeq, nDelivered>>

\* The failure branch returning the half-built producer next to the error.
CreateRollback_ReturnsProducer(p) ==
  /\ pc[p] = "rollback"
  /\ LET r == removeSchemaUpdatesListener(subs, station[p]) IN
     /\ subs' = r.subs
     /\ ret' = [ret EXCEPT ![p] = [producer |-> TRUE,
                                   err |-> IF r.err # "" THEN r.err ELSE cerr[p]]]
  /\ pc' = [pc EXCEPT ![p] = "done"]
  /\ UNCHANGED <<prodVars, Name, station, cerr, dret, life, listened, rejected, createReq,
                 destroyReq, destroyCalls, removals, nInit, regSeq, nDelivered>>

\* The failure branch dropping the removal's error and returning c.create's.
CreateRollback_SwallowsRemoveErr(p) ==
  /\ pc[p] = "rollback"
  /\ LET r == removeSchemaUpdatesListener(subs, station[p]) IN
     /\ subs' = r.subs
     /\ ret' = [ret EXCEPT ![p] = [producer |-> FALSE, err |-> cerr[p]]]
  /\ pc' = [pc EXCEPT ![p] = "done"]
  /\ UNCHANGED <<prodVars, Name, station, cerr, dret, life, listened, rejected, createReq,
                 destroyReq, destroyCalls, removals, nInit, regSeq, nDelivered>>

\* CreateProducer's failure branch: remove the listener and return nil with
\* the removal's error, or with c.create's error when the removal succeeded.
CreateRollback(p) ==
  /\ pc[p] = "rollback"
  /\ LET r == removeSchemaUpdatesListener(subs, station[p]) IN
     /\ subs' = r.subs
     /\ ret' = [ret EXCEPT ![p] = [producer |-> FALSE,
                                   err |-> IF r.err # "" THEN r.err ELSE cerr[p]]]
  /\ pc' = [pc EXCEPT ![p] = "done"]
  /\ UNCHANGED <<prodVars, Name, station, cerr, dret, life, listened, rejected, createReq,
                 destroyReq, destroyCalls, removals, nInit, regSeq, nDelivered>>

\* ---------------------------------------------------------- Producer.Destroy
\* A Destroy that goes on to c.destroy although the removal failed.
Destroy_IgnoresRemoveErr(p) ==
  /\ pc[p] = "done"
  /\ ret[p].producer
  /\ destroyCalls[p] < MaxDestroyCalls
  /\ destroyCalls' = [destroyCalls EXCEPT ![p] = @ + 1]
  /\ LET r == removeSchemaUpdatesListener(subs, station[p]) IN
     /\ subs' = r.subs
     /\ removals' = [removals EXCEPT ![p] = IF r.err # "" THEN @ ELSE @ + 1]
     /\ pc' = [pc EXCEPT ![p] = "removed"]
     /\ UNCHANGED dret
  /\ UNCHANGED <<prodVars, Name, station, ret, cerr, life, listened, rejected, createReq,
                 destroyReq, nInit, regSeq, nDelivered>>

\* Destroy up to c.destroy: remove the listener, panic on its error.  The
\* caller holds a producer only when CreateProducer returned one.
Destroy(p) ==
  /\ pc[p] = "done"
  /\ ret[p].producer
  /\ destroyCalls[p] < MaxDestroyCalls
  /\ destroyCalls' = [destroyCalls EXCEPT ![p] = @ + 1]
  /\ LET r == removeSchemaUpdatesListener(subs, station[p]) IN
     IF r.err # ""
       THEN /\ pc' = [pc EXCEPT ![p] = "panicked"]
            /\ dret' = [dret EXCEPT ![p] = "panic"]
            /\ UNCHANGED <<subs, removals>>
       ELSE /\ subs' = r.subs
            /\ removals' = [removals EXCEPT ![p] = @ + 1]
            /\ pc' = [pc EXCEPT ![p] = "removed"]
            /\ UNCHANGED dret
  /\ UNCHANGED <<prodVars, Name, station, ret, cerr, life, listened, rejected, createReq,
                 destroyReq, nInit, regSeq, nDelivered>>

\* c.destroy: the destruction request leaves for the destruction subject.
DestroySend(p) ==
  /\ pc[p] = "removed"
  /\ pc' = [pc EXCEPT ![p] = "destroying"]
  /\ destroyReq' = [destroyReq EXCEPT ![p] = @ + 1]
  /\ UNCHANGED <<prodVars, Name, subs, station, ret, cerr, dret, life, listened, rejected,
                 createReq, destroyCalls, removals, nInit, regSeq, nDelivered>>

\* c.destroy after the round trip: Destroy returns its result.
DestroyResp(p, ok) ==
  /\ pc[p] = "destroying"
  /\ pc' = [pc EXCEPT ![p] = "done"]
  /\ dret' = [dret EXCEPT ![p] = IF ok THEN "" ELSE "RequestErr"]
  /\ life' = [life EXCEPT ![p] = IF ok THEN "Destroyed" ELSE @]
  /\ UNCHANGED <<prodVars, Name, subs, station, ret, cerr, listened, rejected, createReq,
                 destroyReq, destroyCalls, removals, nInit, regSeq, nDelivered>>

\* ------------------------------------------------------- relay and reader
\* The relay task of a registered station pushes one decoded control message
\* onto the station's channel.
RelayDeliver(s, ty, t) ==
  /\ subs[s].registered
  /\ nDelivered < MaxUpdates
  /\ nDelivered' = nDelivered + 1
  /\ subs' = [subs EXCEPT ![s].ch = Append(@, SchemaUpdate(ty, SchemaUpdateInit(t),
                                                          "relay", nDelivered + 1))]
  /\ UNCHANGED <<prodVars, Name, pc, station, ret, cerr, dret, life, listened, rejected, createReq,
                 destroyReq, destroyCalls, removals, nInit, regSeq>>

\* The reader of a station's channel takes the oldest event; it supersedes
\* the stored schema state.
ReadUpdate(s) ==
  /\ subs[s].registered
  /\ subs[s].ch # <<>>
  /\ LET u == Head(subs[s].ch) IN
     subs' = [subs EXCEPT ![s] = [registered |-> TRUE, ch |-> Tail(subs[s].ch),
                                  schemaType |-> IF u.UpdateType = SchemaUpdateTypeInit
                                                   THEN u.Init.SchemaType ELSE ""]]
  /\ UNCHANGED <<prodVars, Name, pc, station, ret, cerr, dret, life, listened, rejected, createReq,
                 destroyReq, destroyCalls, removals, nInit, regSeq, nDelivered>>

\* ------------------------------------------------------------- Header Set
\* Header keys are strings, modelled as sequences of characters.
ReservedPrefix == <<"$", "m", "e", "m", "p", "h", "i", "s">>
ConnectionIdKey == ReservedPrefix \o <<"_", "c", "o", "n", "n", "e", "c", "t", "i", "o", "n", "I", "d">>
ProducedByKey == ReservedPrefix \o <<"_", "p", "r", "o", "d", "u", "c", "e", "d", "B", "y">>

\* The keys and values the caller tries: two keys outside the reserved
\* prefix, one of them a proper prefix of it, and two keys under it.
PlainKey == <<"k">>
NearKey == <<"$", "m", "e", "m", "p", "h", "i">>
AddInputs == {<<PlainKey, "v1">>, <<PlainKey, "v2">>, <<NearKey, "v1">>,
              <<ReservedPrefix, "v1">>, <<ProducedByKey, "v1">>}

HdrRefs == {"caller", "default"}
EmptyMap == <<>>

\* strings.HasPrefix
HasPrefix(s, prefix) ==
  Len(s) >= Len(prefix) /\ SubSeq(s, 1, Len(prefix)) = prefix

\* m[key] = val on a Go map.
MapPut(m, key, val) ==
  [x \in (DOMAIN m) \cup {key} |-> IF x = key THEN val ELSE m[x]]

\* validateHeaderKey comparing the key with the prefix instead of testing
\* the prefix.
validateHeaderKey_ExactMatch(key) ==
  IF key = ReservedPrefix THEN "ReservedHeaderKey" ELSE ""

\* Headers.validateHeaderKey
validateHeaderKey(key) ==
  IF HasPrefix(key, ReservedPrefix) THEN "ReservedHeaderKey" ELSE ""

\* Headers.Add
Add(m, key, value) ==
  LET err == validateHeaderKey(key) IN
  IF err # "" THEN [map |-> m, err |-> err]
  ELSE [map |-> MapPut(m, key, <<value>>), err |-> ""]

\* The caller calls New on its Headers: a fresh empty map.
HdrNew ==
  /\ heap' = [heap EXCEPT !["caller"] = EmptyMap]
  /\ UNCHANGED <<lifeVars, lastAdd, ppc, pret, lastMsg, paf, nPublished, nProduce>>

\* The caller calls Add on its Headers.
HdrAdd(key, value) ==
  /\ LET r == Add(heap["caller"], key, value) IN
     /\ heap' = [heap EXCEPT !["caller"] = r.map]
     /\ lastAdd' = [called |-> TRUE, err |-> r.err]
  /\ UNCHANGED <<lifeVars, ppc, pret, lastMsg, paf, nPublished, nProduce>>

\* ---------------------------------------------------- production pipeline
ConnId == "conn1"      \* Conn.ConnId
TheProducer == "p1"    \* the producer the Produce calls are made on

\* Payloads: a raw byte slice, a protobuf message, any other value; conforms
\* says whether the station's validator accepts the payload.
Messages ==
  {[kind |-> "bytes", conforms |-> TRUE], [kind |-> "proto", conforms |-> TRUE],
   [kind |-> "proto", conforms |-> FALSE]}

\* The ack wait the caller asks for with the AckWaitSec option (0: no option).
AckWaits == {5}

\* The errors with which the transport resolves a publish future.
PafErrors == {"ErrTimeout", "ErrNoStreamResponse"}

\* getInternalName, and the station's data subject.
getInternalName(s) == s
Subject(s) == getInternalName(s) \o ".final"

\* Conn.getSchemaDetails: the schema state stored for the station.
getSchemaDetails(m, s) == [schemaType |-> m[s].schemaType, err |-> ""]

\* schemaDetails.validateProtoMsg: the station's validator.
validateProtoMsg(sd, msg) ==
  IF msg.conforms THEN [data |-> msg, err |-> ""]
  ELSE [data |-> msg, err |-> "SchemaValidationFailed"]

\* validateMsg passing any payload through when no schema is active.
validateMsg_AcceptsAll(sdres, msg) ==
  IF sdres.err # "" THEN [data |-> msg, err |-> sdres.err]
  ELSE IF sdres.schemaType = "" THEN [data |-> msg, err |-> ""]
  ELSE validateProtoMsg(sdres, msg)

\* Producer.validateMsg
validateMsg(sdres, msg) ==
  IF sdres.err # "" THEN [data |-> msg, err |-> sdres.err]
  ELSE IF sdres.schemaType = ""
    THEN IF msg.kind = "bytes" THEN [data |-> msg, err |-> ""]
         ELSE [data |-> msg, err |-> "UnsupportedMessageType"]
  ELSE validateProtoMsg(sdres, msg)

\* getDefaultProduceOpts, with the message, then the ProduceOpt functions
\* AckWaitSec (ackWait > 0), MsgHeaders (useHdrs) and AsyncProduce (async).
\* A Headers value is copied with the reference to its map.
ProduceOpts(message, ackWait, useHdrs, async) ==
  [Message |-> message,
   AckWaitSec |-> IF ackWait > 0 THEN ackWait ELSE DefaultAckWaitSec,
   MsgHeaders |-> IF useHdrs THEN "caller" ELSE "default",
   AsyncProduce |-> async]

\* produce's two assignments to opts.MsgHeaders.MsgHeaders.
InjectHeaders(m, connId, name) ==
  MapPut(MapPut(m, ConnectionIdKey, <<connId>>), ProducedByKey, <<name>>)

\* The select on the publish future answering before the future resolved.
selectPaf_NoWait(f) == [ready |-> TRUE, err |-> ""]

\* A select that waits on paf.Ok() alone: an error of the future never wakes it.
selectPaf_OkOnly(f) ==
  [ready |-> f = "ok", err |-> ""]

\* produce's select on paf.Ok() and paf.Err().
selectPaf(f) ==
  [ready |-> f # "pending", err |-> IF f \in {"pending", "ok"} THEN "" ELSE f]

\* A produce that hands the message to brokerPublish before it validates it.
ProduceCall_PublishesFirst(message, ackWait, useHdrs, async, transportOk) ==
  /\ ppc = "idle"
  /\ nProduce < MaxProduce
  /\ pc[TheProducer] = "done" /\ ret[TheProducer].producer
  /\ nProduce' = nProduce + 1
  /\ LET opts == ProduceOpts(message, ackWait, useHdrs, async)
         ref == opts.MsgHeaders
         fresh == [heap EXCEPT !["default"] = EmptyMap]
         hdr == InjectHeaders(fresh[ref], ConnId, Name[TheProducer])
         v == validateMsg(getSchemaDetails(subs, station[TheProducer]), opts.Message)
         natsMessage == [Header |-> hdr, Subject |-> Subject(station[TheProducer]),
                         Data |-> v.data, StallWait |-> opts.AckWaitSec]
     IN
     /\ heap' = [fresh EXCEPT ![ref] = hdr]
     /\ IF ~transportOk
          THEN /\ pret' = [returned |-> TRUE, err |-> "PublishErr", paf |-> "none"]
               /\ UNCHANGED <<lastMsg, paf, nPublished, ppc>>
        ELSE /\ lastMsg' = natsMessage
             /\ paf' = "pending"
             /\ nPublished' = nPublished + 1
             /\ IF v.err # ""
                  THEN /\ pret' = [returned |-> TRUE, err |-> v.err, paf |-> "none"]
                       /\ UNCHANGED ppc
                ELSE IF opts.AsyncProduce
                  THEN /\ pret' = [returned |-> TRUE, err |-> "", paf |-> "pending"]
                       /\ UNCHANGED ppc
                  ELSE /\ pret' = [returned |-> FALSE, err |-> "", paf |-> "none"]
                       /\ ppc' = "waiting"
  /\ UNCHANGED <<lifeVars, lastAdd>>

\* A produce whose asynchronous mode returns nil without looking at the error
\* of brokerPublish.
ProduceCall_AsyncIgnoresPublishErr(message, ackWait, useHdrs, async, transportOk) ==
  /\ ppc = "idle"
  /\ nProduce < MaxProduce
  /\ pc[TheProducer] = "done" /\ ret[TheProducer].producer
  /\ nProduce' = nProduce + 1
  /\ LET opts == ProduceOpts(message, ackWait, useHdrs, async)
         ref == opts.MsgHeaders
         fresh == [heap EXCEPT !["default"] = EmptyMap]
         hdr == InjectHeaders(fresh[ref], ConnId, Name[TheProducer])
         v == validateMsg(getSchemaDetails(subs, station[TheProducer]), opts.Message)
         natsMessage == [Header |-> hdr, Subject |-> Subject(station[TheProducer]),
                         Data |-> v.data, StallWait |-> opts.AckWaitSec]
     IN
     /\ heap' = [fresh EXCEPT ![ref] = hdr]
     /\ IF v.err # ""
          THEN /\ pret' = [returned |-> TRUE, err |-> v.err, paf |-> "none"]
               /\ UNCHANGED <<lastMsg, paf, nPublished, ppc>>
        ELSE IF ~transportOk
          THEN /\ pret' = [returned |-> TRUE,
                           err |-> IF opts.AsyncProduce THEN "" ELSE "PublishErr",
                           paf |-> "none"]
               /\ UNCHANGED <<lastMsg, paf, nPublished, ppc>>
        ELSE /\ lastMsg' = natsMessage
             /\ paf' = "pending"
             /\ nPublished' = nPublished + 1
             /\ IF opts.AsyncProduce
                  THEN /\ pret' = [returned |-> TRUE, err |-> "", paf |-> "pending"]
                       /\ UNCHANGED ppc
                  ELSE /\ pret' = [returned |-> FALSE, err |-> "", paf |-> "none"]
                       /\ ppc' = "waiting"
  /\ UNCHANGED <<lifeVars, lastAdd>>

\* Producer.Produce and ProduceOpts.produce up to the return or the select:
\* options, header injection, validation, brokerPublish.
ProduceCall(message, ackWait, useHdrs, async, transportOk) ==
  /\ ppc = "idle"
  /\ nProduce < MaxProduce
  /\ pc[TheProducer] = "done" /\ ret[TheProducer].producer
  /\ nProduce' = nProduce + 1
  /\ LET opts == ProduceOpts(message, ackWait, useHdrs, async)
         ref == opts.MsgHeaders
         fresh == [heap EXCEPT !["default"] = EmptyMap]
         hdr == InjectHeaders(fresh[ref], ConnId, Name[TheProducer])
         v == validateMsg(getSchemaDetails(subs, station[TheProducer]), opts.Message)
         natsMessage == [Header |-> hdr, Subject |-> Subject(station[TheProducer]),
                         Data |-> v.data, StallWait |-> opts.AckWaitSec]
     IN
     /\ heap' = [fresh EXCEPT ![ref] = hdr]
     /\ IF v.err # ""
          THEN /\ pret' = [returned |-> TRUE, err |-> v.err, paf |-> "none"]
               /\ UNCHANGED <<lastMsg, paf, nPublished, ppc>>
        ELSE IF ~transportOk
          THEN /\ pret' = [returned |-> TRUE, err |-> "PublishErr", paf |-> "none"]
               /\ UNCHANGED <<lastMsg, paf, nPublished, ppc>>
        ELSE /\ lastMsg' = natsMessage
             /\ paf' = "pending"
             /\ nPublished' = nPublished + 1
             /\ IF opts.AsyncProduce
                  THEN /\ pret' = [returned |-> TRUE, err |-> "", paf |-> "pending"]
                       /\ UNCHANGED ppc
                  ELSE /\ pret' = [returned |-> FALSE, err |-> "", paf |-> "none"]
                       /\ ppc' = "waiting"
  /\ UNCHANGED <<lifeVars, lastAdd>>

\* The transport resolves the future of the publish: the broker's ack, or an
\* error such as the ack-wait timeout.
TransportResolve(outcome) ==
  /\ paf = "pending"
  /\ paf' = outcome
  /\ UNCHANGED <<lifeVars, heap, lastAdd, ppc, pret, lastMsg, nPublished, nProduce>>

\* The synchronous produce leaves its select.
ProduceReturn ==
  /\ ppc = "waiting"
  /\ LET r == selectPaf(paf) IN
     /\ r.ready
     /\ pret' = [returned |-> TRUE, err |-> r.err, paf |-> paf]
  /\ ppc' = "idle"
  /\ UNCHANGED <<lifeVars, heap, lastAdd, lastMsg, paf, nPublished, nProduce>>

\* ------------------------------------------------------------ specification
NoMsg == [Header |-> EmptyMap, Subject |-> "", Data |-> [kind |-> "bytes", conforms |-> TRUE],
          StallWait |-> 0]

\* The caller's Headers after New, and no Produce or Add call made yet.
InitProduce ==
  /\ heap = [r \in HdrRefs |-> EmptyMap]
  /\ lastAdd = [called |-> FALSE, err |-> ""]
  /\ ppc = "idle"
  /\ pret = [returned |-> FALSE, err |-> "", paf |-> "none"]
  /\ lastMsg = NoMsg
  /\ paf = "none"
  /\ nPublished = 0
  /\ nProduce = 0

Init ==
  /\ subs = [s \in Stations |-> NoSub]
  /\ pc = [p \in Producers |-> "start"]
  /\ Name = [p \in Producers |-> ""]
  /\ station = [p \in Producers |-> "none"]
  /\ ret = [p \in Producers |-> [producer |-> FALSE, err |-> ""]]
  /\ cerr = [p \in Producers |-> ""]
  /\ dret = [p \in Producers |-> "none"]
  /\ life = [p \in Producers |-> "Unregistered"]
  /\ listened = [p \in Producers |-> "no"]
  /\ rejected = [p \in Producers |-> FALSE]
  /\ createReq = [p \in Producers |-> 0]
  /\ destroyReq = [p \in Producers |-> 0]
  /\ destroyCalls = [p \in Producers |-> 0]
  /\ removals = [p \in Producers |-> 0]
  /\ nInit = [p \in Producers |-> 0]
  /\ regSeq = [p \in Producers |-> 0]
  /\ nDelivered = 0
  /\ InitProduce

Next ==
  \/ \E p \in Producers, s \in Stations, optErr, genSuffix, suffixErr, subscribeOk \in BOOLEAN :
       CreateProducerBegin(p, s, optErr, genSuffix, suffixErr, subscribeOk)
  \/ \E p \in Producers : CreateSend(p)
  \/ \E p \in Producers, resp \in Responses : CreateResp(p, resp)
  \/ \E p \in Producers : CreateRollback(p)
  \/ \E p \in Producers : Destroy(p)
  \/ \E p \in Producers : DestroySend(p)
  \/ \E p \in Producers, ok \in BOOLEAN : DestroyResp(p, ok)
  \/ \E s \in Stations : RelayDeliver(s, SchemaUpdateTypeInit, "protobuf")
  \/ \E s \in Stations : RelayDeliver(s, SchemaUpdateTypeDrop, "")
  \/ \E s \in Stations : ReadUpdate(s)

Spec == Init /\ [][Next]_vars

\* The pipeline of one producer: CreateProducer has returned the producer
\* for station s1, with or without the random suffix, and the creation
\* response's Init event is in the station's channel.
InitP ==
  /\ \E t \in SchemaTypes :
       subs = [s \in Stations |->
                 IF s = "s1"
                   THEN [registered |-> TRUE,
                         ch |-> <<SchemaUpdate(SchemaUpdateTypeInit, SchemaUpdateInit(t),
                                               TheProducer, 0)>>,
                         schemaType |-> ""]
                   ELSE NoSub]
  /\ pc = [p \in Producers |-> IF p = TheProducer THEN "done" ELSE "start"]
  /\ Name \in {[p \in Producers |-> IF p = TheProducer THEN n ELSE ""] :
               n \in {TheProducer, extendNameWithRandSuffix(TheProducer, RandomHex)}}
  /\ station = [p \in Producers |-> IF p = TheProducer THEN "s1" ELSE "none"]
  /\ ret = [p \in Producers |-> [producer |-> p = TheProducer, err |-> ""]]
  /\ cerr = [p \in Producers |-> ""]
  /\ dret = [p \in Producers |-> "none"]
  /\ life = [p \in Producers |-> IF p = TheProducer THEN "Active" ELSE "Unregistered"]
  /\ listened = [p \in Producers |-> IF p = TheProducer THEN "ok" ELSE "no"]
  /\ rejected = [p \in Producers |-> FALSE]
  /\ createReq = [p \in Producers |-> IF p = TheProducer THEN 1 ELSE 0]
  /\ destroyReq = [p \in Producers |-> 0]
  /\ destroyCalls = [p \in Producers |-> 0]
  /\ removals = [p \in Producers |-> 0]
  /\ nInit = [p \in Producers |-> IF p = TheProducer THEN 1 ELSE 0]
  /\ regSeq = [p \in Producers |-> 0]
  /\ nDelivered = 0
  /\ InitProduce

NextP ==
  \/ HdrNew
  \/ \E a \in AddInputs : HdrAdd(a[1], a[2])
  \/ \E message \in Messages, ackWait \in AckWaits, useHdrs, async, transportOk \in BOOLEAN :
       ProduceCall(message, ackWait, useHdrs, async, transportOk)
  \/ \E outcome \in {"ok"} \cup PafErrors : TransportResolve(outcome)
  \/ ProduceReturn
  \/ ReadUpdate("s1")

SpecProduce == InitP /\ [][NextP]_vars

\* The pipeline under fairness: a produce blocked in its select runs once a
\* channel of the future is ready (the Go scheduler runs a runnable
\* goroutine), and the transport resolves every pending future, with the
\* broker's ack or with an error such as its ack-wait timeout.
SpecProduceFair ==
  /\ SpecProduce
  /\ WF_vars(ProduceReturn)
  /\ WF_vars(\E outcome \in {"ok"} \cup PafErrors : TransportResolve(outcome))

\* ==================================================================== claims
\* C1: a creation request is sent for a producer only after that call's
\* listenToSchemaUpdates succeeded, and a call whose registration failed
\* sends no creation request.
C1_RegisteredBeforeRequest ==
  \A p \in Producers :
    /\ createReq[p] > 0 => listened[p] = "ok"
    /\ listened[p] = "failed" => createReq[p] = 0 /\ pc[p] = "done" /\ ~ret[p].producer

C1_Witness ==
  \E p, q \in Producers :
    /\ createReq[p] > 0 /\ listened[p] = "ok"
    /\ listened[q] = "failed" /\ pc[q] = "done"

C3_InitBeforeRelayUpdates ==
  \A p \in Producers :
    pc[p] = "done" /\ ret[p].producer /\ subs[station[p]].registered =>
      LET ch == subs[station[p]].ch IN
      \A i, j \in 1..Len(ch) :
        ch[i].src = p /\ ch[j].src = "relay" /\ ch[j].seq > regSeq[p] => i < j

\* C4: the first Destroy of a producer removes the relay, and a second
\* Destroy removes nothing and returns NoActiveListener to its caller.
C4_SecondDestroyReturnsError ==
  \A p \in Producers :
    destroyCalls[p] = 2 /\ pc[p] \in {"done", "panicked"} =>
      dret[p] = "NoActiveListener" /\ removals[p] = 1

\* C5: a producer's lifecycle state changes only from Unregistered to Active
\* and from Active to Destroyed.
C5_LifecycleOrder ==
  [][\A p \in Producers :
       life'[p] # life[p] =>
         \/ life[p] = "Unregistered" /\ life'[p] = "Active"
         \/ life[p] = "Active" /\ life'[p] = "Destroyed"]_vars

C5_Witness ==
  \E p, q \in Producers :
    /\ life[p] = "Destroyed" /\ destroyCalls[p] >= 2
    /\ life[q] = "Unregistered" /\ pc[q] = "done"

\* C6: the caller's Headers holds no key under the reserved prefix, whatever
\* Add and Produce calls were made.
C6_CallerHeadersUnreserved ==
  \A k \in DOMAIN heap["caller"] : ~HasPrefix(k, ReservedPrefix)

ProduceInputs == Messages \X AckWaits \X BOOLEAN \X BOOLEAN \X BOOLEAN

C9_SyncWaitsAsyncReturns ==
  /\ [](ppc = "waiting" => ~pret.returned)
  /\ [][ppc = "waiting" /\ ppc' = "idle" =>
          /\ paf \in {"ok"} \cup PafErrors
          /\ pret'.returned
          /\ pret'.err = IF paf = "ok" THEN "" ELSE paf]_vars
  /\ [][\A i \in ProduceInputs :
          nPublished' = nPublished + 1 /\ ProduceCall(i[1], i[2], i[3], i[4], i[5]) =>
            IF i[4] THEN pret'.returned /\ pret'.err = "" /\ paf' = "pending" /\ ppc' = "idle"
                    ELSE ~pret'.returned /\ ppc' = "waiting"]_vars

C9_Witness ==
  /\ ppc = "idle" /\ pret.returned
  /\ pret.paf \in PafErrors /\ pret.err = pret.paf

\* C10: a step of a producer's CreateProducer or Destroy changes neither the
\* relay registration nor the channel of any station other than its own.
C10_OtherStationsUntouched ==
  [][\A p \in Producers, T \in Stations :
       pc'[p] # pc[p] /\ station'[p] # T => subs'[T] = subs[T]]_vars

C10_Witness ==
  \E p, q \in Producers :
    /\ station[p] = "s1" /\ station[q] = "s2"
    /\ pc[p] = "done" /\ ret[p].producer /\ destroyCalls[p] = 0
    /\ subs["s1"].registered /\ Len(subs["s1"].ch) > 0
    /\ destroyReq[q] > 0 /\ pc[q] = "done"

\* C11: a produce call that fails validation (UnsupportedMessageType or
\* SchemaValidationFailed) leaves the stored schema state of every station
\* unchanged and publishes nothing: the publish count, the last published
\* message and the pending future stay as they were.
C11_FailedValidationPublishesNothing ==
  [][(nProduce' = nProduce + 1
      /\ pret'.err \in {"UnsupportedMessageType", "SchemaValidationFailed"})
     => (subs' = subs /\ nPublished' = nPublished /\ lastMsg' = lastMsg /\ paf' = paf
         /\ pret'.returned /\ ppc' = ppc)]_vars

\* A second produce failed schema validation after a first one was published.
C11_Witness ==
  /\ nProduce = 2
  /\ nPublished = 1
  /\ pret.returned
  /\ pret.err = "SchemaValidationFailed"
  /\ subs[station[TheProducer]].schemaType = "protobuf"

\* CreateProducer has returned to its caller: the call is over, or the caller
\* has gone on to Destroy.
createReturned(p) ==
  \/ pc[p] \in {"done", "removed", "destroying"}
  \/ pc[p] = "panicked" /\ dret[p] = "panic"

\* C12: whenever CreateProducer has returned, the returned producer is
\* non-nil exactly when the returned error is nil; a call that has not
\* returned has handed out no producer.
C12_ProducerIffNoError ==
  \A p \in Producers :
    /\ createReturned(p) => (ret[p].producer <=> ret[p].err = "")
    /\ ~createReturned(p) => ~ret[p].producer

\* One call was rejected by the broker and returned the error alone, another
\* returned a producer.
C12_Witness ==
  \E p, q \in Producers :
    /\ pc[p] = "done" /\ ret[p].err = "BrokerRejected" /\ ~ret[p].producer
    /\ pc[q] = "done" /\ ret[q].producer /\ ret[q].err = ""

\* C13: every successful CreateProducer has enqueued exactly one SchemaUpdate
\* of type Init on the channel of its station, carrying the snapshot of the
\* creation response, in the step that returns the producer; no other call
\* enqueues one.
C13_ExactlyOneInitPerSuccess ==
  /\ [](\A p \in Producers : nInit[p] = (IF ret[p].producer THEN 1 ELSE 0))
  /\ [][\A p \in Producers : \A resp \in Responses :
          (pc[p] = "requested" /\ ret'[p].producer /\ CreateResp(p, resp))
          => subs'[station[p]].ch =
               Append(subs[station[p]].ch,
                      SchemaUpdate(SchemaUpdateTypeInit, resp.SchemaUpdateInit, p, 0))]_vars

\* A producer was returned and the newest event of its station's channel is
\* its Init event with the protobuf snapshot of the response.
C13_Witness ==
  \E p \in Producers :
    /\ pc[p] = "done" /\ ret[p].producer /\ nInit[p] = 1
    /\ subs[station[p]].registered
    /\ Len(subs[station[p]].ch) > 0
    /\ subs[station[p]].ch[Len(subs[station[p]].ch)] =
         SchemaUpdate(SchemaUpdateTypeInit, SchemaUpdateInit("protobuf"), p, 0)

\* C14: Destroy sends a destruction request only after its own removal of
\* the station's listener succeeded, and a Destroy whose removal failed has
\* sent nothing: requests never outnumber successful removals, a request
\* leaves only from the state right after a removal, and the call that
\* panicked on the removal left the request count where it was.
C14_RemoveBeforeDestroyRequest ==
  /\ [](\A p \in Producers :
          /\ destroyReq[p] <= removals[p]
          /\ removals[p] <= destroyCalls[p]
          /\ (pc[p] = "panicked" /\ dret[p] = "panic")
               => (destroyReq[p] = removals[p] /\ removals[p] = destroyCalls[p] - 1))
  /\ [][\A p \in Producers :
          destroyReq'[p] # destroyReq[p]
          => (pc[p] = "removed" /\ removals[p] = destroyReq[p] + 1
              /\ destroyReq'[p] = destroyReq[p] + 1)]_vars

\* A second Destroy failed at the removal after the first one had sent its
\* request: still one request.
C14_Witness ==
  \E p \in Producers :
    /\ pc[p] = "panicked" /\ dret[p] = "panic"
    /\ destroyCalls[p] = 2 /\ destroyReq[p] = 1

\* C15: when c.create failed and the removal of the listener in the failure
\* branch fails too, CreateProducer returns the removal's error and no
\* producer.
C15_RollbackFailureReturned ==
  [][\A p \in Producers :
       (pc[p] = "rollback" /\ pc'[p] = "done"
        /\ removeSchemaUpdatesListener(subs, station[p]).err # "")
       => (/\ ret'[p].err = removeSchemaUpdatesListener(subs, station[p]).err
           /\ ret'[p].err # cerr[p]
           /\ ~ret'[p].producer)]_vars

\* A rejected creation whose rollback found no listener returned
\* NoActiveListener.
C15_Witness ==
  \E p \in Producers :
    /\ pc[p] = "done" /\ rejected[p] /\ cerr[p] = "BrokerRejected"
    /\ ret[p].err = "NoActiveListener" /\ ~ret[p].producer

\* C16: in both modes a produce whose validated message brokerPublish
\* rejects returns the transport's error in the same step, without a future
\* and without waiting; an asynchronous produce returns nil only when the
\* publish was submitted.
C16_PublishErrorReturnedAtOnce ==
  [][\A i \in ProduceInputs :
       (nProduce' = nProduce + 1 /\ ProduceCall(i[1], i[2], i[3], i[4], i[5]))
       => /\ (~i[5] /\ pret'.err \notin {"UnsupportedMessageType", "SchemaValidationFailed"})
               => (/\ pret'.returned /\ pret'.err = "PublishErr" /\ pret'.paf = "none"
                   /\ ppc' = "idle" /\ paf' = paf /\ nPublished' = nPublished)
          /\ (i[4] /\ pret'.returned /\ pret'.err = "")
               => (i[5] /\ nPublished' = nPublished + 1 /\ paf' = "pending")]_vars

\* An asynchronous produce came back with the transport's error while the
\* future of an earlier publish was still pending.
C16_Witness ==
  /\ nProduce = 2 /\ nPublished = 1
  /\ pret.returned /\ pret.err = "PublishErr" /\ ppc = "idle"
  /\ paf = "pending"

\* C17: under fairness every synchronous produce that waits on the future of
\* its accepted publish eventually returns, once the transport resolves the
\* future with an ack or an error; the produce has no timeout of its own:
\* while the future is unresolved its return is not enabled.
C17_SyncProduceEventuallyReturns ==
  /\ (ppc = "waiting") ~> (ppc = "idle" /\ pret.returned)
  /\ [](ppc = "waiting" /\ paf = "pending" => ~ENABLED ProduceReturn)

\* A synchronous produce returned after the broker's ack.
C17_Witness ==
  /\ ppc = "idle" /\ pret.returned
  /\ pret.paf = "ok" /\ pret.err = ""

\* C18: every producer that a successful CreateProducer returned and that
\* has not been destroyed has a registered listener for its station, also
\* when several producers share the station.
C18_LiveProducerHasRelay ==
  \A p \in Producers :
    (pc[p] = "done" /\ ret[p].producer /\ destroyCalls[p] = 0)
    => subs[station[p]].registered

\* C19: whenever handleCreationResp processes a successful creation response
\* (the call leaves c.create by returning the producer or by faulting in the
\* send), the station map holds the entry of the producer's station.
C19_InitSendFindsRelay ==
  [][\A p \in Producers :
       (pc[p] = "requested" /\ pc'[p] \in {"done", "panicked", "blocked"})
       => subs[station[p]].registered]_vars

\* C20: a Destroy whose destruction request failed returns the request's
\* error with the station's listener unregistered, and after that error no
\* further destruction request is sent for the producer: the retry fails at
\* the removal.
C20_FailedDestroyNotRetried ==
  /\ [][\A p \in Producers :
          (pc[p] = "destroying" /\ pc'[p] = "done" /\ dret'[p] = "RequestErr")
          => ~subs'[station[p]].registered]_vars
  /\ [][\A p \in Producers :
          dret[p] = "RequestErr" => destroyReq'[p] = destroyReq[p]]_vars

====
